---- MODULE Spec2Model ----
(***************************************************************************)
(* A model of src/api_server.py: a FastAPI facade over one instagrapi      *)
(* Client.  The module body (lines 16-22) builds the client and logs it in *)
(* when IG_SESSIONID is set; after that the router serves requests, each   *)
(* handler running to completion (the handlers are `async def` without any *)
(* await, so the event loop runs one handler at a time).                   *)
(*                                                                         *)
(* Python values: an Optional is a sequence of length at most one (None is *)
(* <<>>); a str that the code inspects character by character (a username)*)
(* is a sequence of one-character strings; a message text is a sequence of *)
(* pieces, so that f"prefix{str(e)}" differs from str(e).  A value that    *)
(* crosses the client boundary carries its type: PyInt(n), PyStr(s),       *)
(* PyObj(name) for an opaque library object, PyList(xs); dicts and typed   *)
(* objects are records.                                                    *)
(***************************************************************************)
EXTENDS Integers, Sequences, FiniteSets, TLC

\* ------------------------------------------------------------------ bounds
\* longest username path parameter
MaxLen == 3
\* number of accounts the external service knows (pks 1..NumUsers)
NumUsers == 3
\* the `le=` limit of the search endpoints' amount (1000 in the source),
\* scaled down
AmountLe == 2

\* ------------------------------------------------------------ Python values
None == <<>>
Some(x) == <<x>>
PyInt(n) == [int |-> n]
PyStr(s) == [str |-> s]
PyObj(name) == [obj |-> name]
PyList(xs) == [list |-> xs]

\* the characters a username is made of: whitespace, "@", "/", a letter
Chars == {" ", "@", "/", "a"}
Whitespace == {" "}
\* the values of a {username} path parameter: the router matches one
\* non-empty path segment, so no "/" reaches a handler
PathStrings == UNION {[1..k -> Chars \ {"/"}] : k \in 1..MaxLen}

RECURSIVE lstrip(_, _)
\* str.lstrip(chars): drop the longest prefix made of chars
lstrip(s, chars) ==
    IF s = <<>> \/ Head(s) \notin chars THEN s ELSE lstrip(Tail(s), chars)

RECURSIVE rstrip(_, _)
\* str.rstrip(chars): drop the longest suffix made of chars
rstrip(s, chars) ==
    IF s = <<>> \/ s[Len(s)] \notin chars
    THEN s
    ELSE rstrip(SubSeq(s, 1, Len(s) - 1), chars)

\* str.strip(): whitespace off both ends
strip(s) == lstrip(rstrip(s, Whitespace), Whitespace)

\* return username.strip().rstrip('/').lstrip('@')
strip_username(username) == lstrip(rstrip(strip(username), {"/"}), {"@"})

\* bool(x) of an Optional[str]: None and "" are falsy
Truthy(opt) == opt # None /\ opt[1] # ""

\* ------------------------------------------------------- the external client
\* what a client call can raise, each with its text: subclasses of
\* instagrapi.exceptions.ClientError, and the AssertionError of the client's
\* own assert statements
ClientExceptions ==
    { [kind |-> "UserNotFound",         message |-> "Target user not found"],
      [kind |-> "MediaNotFound",        message |-> "Media not found"],
      [kind |-> "PrivateAccount",       message |-> "Account is private"],
      [kind |-> "LoginRequired",        message |-> "login_required"],
      [kind |-> "PleaseWaitFewMinutes", message |-> "Please wait a few minutes"],
      [kind |-> "AssertionError",       message |-> "Login required"] }

\* HTTPException(status_code=..., detail=...), as an exception object
HTTPException(status_code, detail) ==
    [kind |-> "HTTPException", status_code |-> status_code, detail |-> detail]

\* str(e): the message of a client exception; Starlette's
\* HTTPException.__str__ gives f"{status_code}: {detail}"
str(e) ==
    IF e.kind = "HTTPException"
    THEN <<ToString(e.status_code), ": ">> \o e.detail
    ELSE <<e.message>>

\* the accounts of the external service, as instagrapi UserShort objects;
\* profile_pic_url is an optional URL object
UserPks == 1..NumUsers
UserShort(pk) ==
    [ pk              |-> pk,
      username        |-> [i \in 1..pk |-> "a"],
      full_name       |-> "name",
      is_private      |-> (pk % 2 = 0),
      profile_pic_url |-> IF pk = 1 THEN None
                          ELSE Some([scheme |-> "https", host |-> "pic"]) ]

\* str(url) of a URL object
UrlStr(url) == <<url.scheme, "://", url.host>>

\* a dict pk -> UserShort or a list of UserShort, in the client's order:
\* the sequences of distinct accounts
Enumerations ==
    {s \in UNION {[1..k -> UserPks] : k \in 0..NumUsers} :
        \A i, j \in 1..Len(s) : i # j => s[i] # s[j]}

\* media kinds (1 photo, 2 video, 8 album) and product types
MediaTypes == {1, 2, 8}
ProductTypes == {"", "feed", "igtv", "clips"}

\* the value of IG_SESSIONID in the process environment
EnvValues == {None, Some(""), Some("sid")}

VARIABLES
    pc,          \* where the module body is: "client", "getenv", "login",
                 \* then "serving" (or "failed": the import raised)
    env,         \* os.environ's IG_SESSIONID
    cl,          \* the module global cl: None until line 19 has run
    sessionid,   \* the module global sessionid
    loginCalls,  \* how many times login_by_sessionid has been called
    req,         \* the request being handled, None between requests
    calls,       \* the client calls made for req, in order
    resp,        \* the response to req, None until the handler ends
    observed     \* the client objects handlers have used

vars == <<pc, env, cl, sessionid, loginCalls, req, calls, resp, observed>>

\* ------------------------------------------------------- the module body
\* cl = Client(): a fresh, logged-out client object
NewClient == [id |-> "Client#1", user_id |-> None]

Init ==
    /\ pc = "client"
    /\ env \in EnvValues
    /\ cl = None
    /\ sessionid = None
    /\ loginCalls = 0
    /\ req = None
    /\ calls = <<>>
    /\ resp = None
    /\ observed = {}

\* line 19
Construct ==
    /\ pc = "client"
    /\ cl' = Some(NewClient)
    /\ pc' = "getenv"
    /\ UNCHANGED <<env, sessionid, loginCalls, req, calls, resp, observed>>

\* line 20
GetEnv ==
    /\ pc = "getenv"
    /\ sessionid' = env
    /\ pc' = "login"
    /\ UNCHANGED <<env, cl, loginCalls, req, calls, resp, observed>>

\* the test inverted: `if not sessionid:`
ShouldLogin_Inverted(sid) == ~Truthy(sid)

\* `if sessionid:` of line 21
ShouldLogin(sid) == Truthy(sid)

\* lines 21-22: one login when the credential is truthy; the login either
\* fills in the account or raises, which ends the import
Login ==
    /\ pc = "login"
    /\ IF ShouldLogin(sessionid)
       THEN /\ loginCalls' = loginCalls + 1
            /\ \E ok \in BOOLEAN :
                 IF ok
                 THEN /\ cl' = Some([cl[1] EXCEPT !.user_id = Some("account")])
                      /\ pc' = "serving"
                 ELSE /\ cl' = cl
                      /\ pc' = "failed"
       ELSE /\ loginCalls' = loginCalls
            /\ cl' = cl
            /\ pc' = "serving"
    /\ UNCHANGED <<env, sessionid, req, calls, resp, observed>>

\* ---------------------------------------------------- requests, responses
\* the outcome of one client call: it returns a value or raises
Returns(v) == [exc |-> None, value |-> Some(v)]
Raises(e) == [exc |-> Some(e), value |-> None]
Outcomes(values) == {Returns(v) : v \in values} \cup {Raises(e) : e \in ClientExceptions}

Call(method, args, outcome) == [method |-> method, args |-> args, outcome |-> outcome]

\* a JSON response with status 200
Json(body) == [status |-> 200, detail |-> None, body |-> Some(body)]

\* what FastAPI answers to a raised HTTPException(status_code, detail)
HTTPError(status_code, detail) ==
    [status |-> status_code, detail |-> Some(detail), body |-> None]

\* what the server answers when a handler lets another exception escape
InternalServerError == HTTPError(500, <<"Internal Server Error">>)

\* what FastAPI answers when a parameter fails its Query(...) constraint:
\* the handler is not called
Unprocessable == HTTPError(422, <<"validation error">>)

\* a narrower clause, `except ClientError` (the import of line 8): the
\* client's AssertionError and the handler's own HTTPException pass it
Catches_ClientErrorOnly(e) == e.kind \notin {"AssertionError", "HTTPException"}

\* `except Exception`: every exception a handler can meet, a client
\* exception or an HTTPException raised in the try block, is an Exception
Catches(e) == TRUE

\* except Exception as e:
\*     raise HTTPException(status_code=status_code, detail=prefix + str(e))
Except(e, status_code, prefix) ==
    IF Catches(e)
    THEN HTTPError(status_code, prefix \o str(e))
    ELSE IF e.kind = "HTTPException"
         THEN HTTPError(e.status_code, e.detail)
         ELSE InternalServerError

\* convert_user_short, lines 32-40
convert_user_short(user) ==
    [ pk              |-> user.pk,
      username        |-> user.username,
      full_name       |-> user.full_name,
      is_private      |-> user.is_private,
      profile_pic_url |-> IF user.profile_pic_url # None
                          THEN Some(UrlStr(user.profile_pic_url[1]))
                          ELSE None ]

\* [convert_user_short(user) for user in users]
ConvertAll(users) == [i \in 1..Len(users) |-> convert_user_short(users[i])]

\* users[:amount] for amount >= 0
Slice(users, amount) ==
    SubSeq(users, 1, IF amount < Len(users) THEN amount ELSE Len(users))

\* the UserShort objects of an enumeration of pks
Users(pks) == [i \in 1..Len(pks) |-> UserShort(pks[i])]

\* what the client's enumerating methods can return
UserLists == {PyList(Users(pks)) : pks \in Enumerations}

\* ----------------------------------------------------------- the handlers
\* Each handler is an operator from the request's parameters and the
\* outcomes of the client calls it would make to the response and the calls
\* it made, in order.

\* lines 66-74
user_id_from_username(username, o1) ==
    LET name == strip_username(username)
        c1 == Call("user_id_from_username", <<PyStr(name)>>, o1)
    IN  IF o1.exc # None
        THEN [resp |-> Except(o1.exc[1], 404, <<"User not found: ">>),
              calls |-> <<c1>>]
        ELSE [resp |-> Json([user_id |-> o1.value[1].int, username |-> name]),
              calls |-> <<c1>>]

\* lines 76-83
username_from_user_id(user_id, o1) ==
    LET c1 == Call("username_from_user_id", <<PyInt(user_id)>>, o1)
    IN  IF o1.exc # None
        THEN [resp |-> Except(o1.exc[1], 404, <<"User not found: ">>),
              calls |-> <<c1>>]
        ELSE [resp |-> Json([user_id |-> user_id, username |-> o1.value[1].str]),
              calls |-> <<c1>>]

\* lines 85-92
user_info(user_id, o1) ==
    LET c1 == Call("user_info", <<PyInt(user_id)>>, o1)
    IN  IF o1.exc # None
        THEN [resp |-> Except(o1.exc[1], 404, <<>>), calls |-> <<c1>>]
        ELSE [resp |-> Json(o1.value[1]), calls |-> <<c1>>]

\* lines 135-142: the amount goes to the client, whose result is returned whole
user_followers(user_id, amount, o1) ==
    LET c1 == Call("user_followers", <<PyInt(user_id), PyInt(amount)>>, o1)
    IN  IF o1.exc # None
        THEN [resp |-> Except(o1.exc[1], 500, <<>>), calls |-> <<c1>>]
        ELSE [resp |-> Json(PyList(ConvertAll(o1.value[1].list))), calls |-> <<c1>>]

\* lines 144-151
user_following(user_id, amount, o1) ==
    LET c1 == Call("user_following", <<PyInt(user_id), PyInt(amount)>>, o1)
    IN  IF o1.exc # None
        THEN [resp |-> Except(o1.exc[1], 500, <<>>), calls |-> <<c1>>]
        ELSE [resp |-> Json(PyList(ConvertAll(o1.value[1].list))), calls |-> <<c1>>]

\* lines 160-166 and 175-181: search_following and search_followers differ
\* in the client method only
SearchHandler(method, username, q, amount, o1, o2) ==
    LET name == strip_username(username)
        c1 == Call("user_id_from_username", <<PyStr(name)>>, o1)
    IN  IF o1.exc # None
        THEN [resp |-> Except(o1.exc[1], 500, <<>>), calls |-> <<c1>>]
        ELSE LET c2 == Call(method, <<o1.value[1], PyStr(q)>>, o2)
             IN  IF o2.exc # None
                 THEN [resp |-> Except(o2.exc[1], 500, <<>>),
                       calls |-> <<c1, c2>>]
                 ELSE [resp |-> Json(PyList(ConvertAll(Slice(o2.value[1].list, amount)))),
                       calls |-> <<c1, c2>>]

\* lines 153-166
search_following(username, q, amount, o1, o2) ==
    SearchHandler("search_following", username, q, amount, o1, o2)

\* lines 168-181
search_followers(username, q, amount, o1, o2) ==
    SearchHandler("search_followers", username, q, amount, o1, o2)

\* the User object of cl.user_info / cl.user_info_by_username
User(pk) == [pk |-> pk, username |-> UserShort(pk).username, follower_count |-> pk]

\* the Media objects cl.media_info can return for a media_pk
MediaPks == {1, 2}
Medias(media_pk) ==
    {[pk |-> media_pk, media_type |-> t, product_type |-> p] :
        t \in MediaTypes, p \in ProductTypes}

\* lines 277-284
media_info(media_pk, o1) ==
    LET c1 == Call("media_info", <<PyInt(media_pk)>>, o1)
    IN  IF o1.exc # None
        THEN [resp |-> Except(o1.exc[1], 404, <<>>), calls |-> <<c1>>]
        ELSE [resp |-> Json(o1.value[1]), calls |-> <<c1>>]

\* the chain without its product_type tests: every video goes to
\* video_download
DownloadMethod_AnyVideo(media) ==
    IF media.media_type = 1 THEN Some("photo_download")
    ELSE IF media.media_type = 2 THEN Some("video_download")
    ELSE None

\* the if/elif chain of lines 370-379: the client method that downloads the
\* media, None for the else branch
DownloadMethod(media) ==
    IF media.media_type = 1 THEN Some("photo_download")
    ELSE IF media.media_type = 2 /\ media.product_type = "feed"
         THEN Some("video_download")
    ELSE IF media.media_type = 2 /\ media.product_type = "igtv"
         THEN Some("igtv_download")
    ELSE IF media.media_type = 2 /\ media.product_type = "clips"
         THEN Some("clip_download")
    ELSE None

\* lines 363-383: the HTTPException(400) of line 379 is raised inside the
\* try block, so the except clause of line 382 receives it
media_download(media_pk, o1, o2) ==
    LET c1 == Call("media_info", <<PyInt(media_pk)>>, o1)
    IN  IF o1.exc # None
        THEN [resp |-> Except(o1.exc[1], 500, <<>>), calls |-> <<c1>>]
        ELSE LET method == DownloadMethod(o1.value[1])
             IN  IF method = None
                 THEN [resp |-> Except(HTTPException(400, <<"Unsupported media type">>),
                                       500, <<>>),
                       calls |-> <<c1>>]
                 ELSE LET c2 == Call(method[1], <<PyInt(media_pk), PyObj("temp_dir")>>, o2)
                      IN  IF o2.exc # None
                          THEN [resp |-> Except(o2.exc[1], 500, <<>>),
                                calls |-> <<c1, c2>>]
                          ELSE [resp |-> Json([file |-> o2.value[1]]),
                                calls |-> <<c1, c2>>]

\* lines 493-500: the body's lists go to the client as they are
direct_send(message, o1) ==
    LET c1 == Call("direct_send",
                   <<PyStr(message.text), PyList(message.user_ids),
                     PyList(message.thread_ids)>>, o1)
    IN  IF o1.exc # None
        THEN [resp |-> Except(o1.exc[1], 500, <<>>), calls |-> <<c1>>]
        ELSE [resp |-> Json(o1.value[1]), calls |-> <<c1>>]

\* lines 582-589: reads cl.user_id, calls no client method, has no try
health(client) ==
    [resp |-> Json([status    |-> "ok",
                    logged_in |-> client.user_id # None,
                    user_id   |-> client.user_id]),
     calls |-> <<>>]

\* lines 591-598
root ==
    [resp |-> Json([message |-> "Instagrapi REST API", docs |-> "/docs",
                    health |-> "/health"]),
     calls |-> <<>>]

\* The other handlers have one of three shapes.  Handlers that call one
\* client method with the path parameter and answer `status` when it raises:
SingleCallRoutes ==
    { [name |-> "user_followers_count",       method |-> "user_info",                 status |-> 404],
      [name |-> "media_pk_from_code",         method |-> "media_pk_from_code",        status |-> 404],
      [name |-> "media_pk_from_url",          method |-> "media_pk_from_url",         status |-> 404],
      [name |-> "direct_thread",              method |-> "direct_thread",             status |-> 404],
      [name |-> "user_follow",                method |-> "user_follow",               status |-> 500],
      [name |-> "user_unfollow",              method |-> "user_unfollow",             status |-> 500],
      [name |-> "user_remove_follower",       method |-> "user_remove_follower",      status |-> 500],
      [name |-> "mute_posts_from_follow",     method |-> "mute_posts_from_follow",    status |-> 500],
      [name |-> "unmute_posts_from_follow",   method |-> "unmute_posts_from_follow",  status |-> 500],
      [name |-> "mute_stories_from_follow",   method |-> "mute_stories_from_follow",  status |-> 500],
      [name |-> "close_friend_add",           method |-> "close_friend_add",          status |-> 500],
      [name |-> "close_friend_remove",        method |-> "close_friend_remove",       status |-> 500],
      [name |-> "user_medias",                method |-> "user_medias",               status |-> 500],
      [name |-> "user_clips",                 method |-> "user_clips",                status |-> 500],
      [name |-> "media_delete",               method |-> "media_delete",              status |-> 500],
      [name |-> "comment_like",               method |-> "comment_like",              status |-> 500],
      [name |-> "comment_unlike",             method |-> "comment_unlike",            status |-> 500],
      [name |-> "direct_threads",             method |-> "direct_threads",            status |-> 500],
      [name |-> "direct_pending_inbox",       method |-> "direct_pending_inbox",      status |-> 500],
      [name |-> "direct_messages",            method |-> "direct_messages",           status |-> 500],
      [name |-> "direct_answer",              method |-> "direct_answer",             status |-> 500],
      [name |-> "direct_search",              method |-> "direct_search",             status |-> 500],
      [name |-> "direct_thread_hide",         method |-> "direct_thread_hide",        status |-> 500],
      [name |-> "direct_thread_mark_unread",  method |-> "direct_thread_mark_unread", status |-> 500],
      [name |-> "direct_thread_mute",         method |-> "direct_thread_mute",        status |-> 500],
      [name |-> "direct_thread_unmute",       method |-> "direct_thread_unmute",      status |-> 500],
      [name |-> "direct_message_delete",      method |-> "direct_message_delete",     status |-> 500],
      [name |-> "direct_media_share",         method |-> "direct_media_share",        status |-> 500] }

\* try: result = cl.<method>(arg); return {...}
\* except Exception as e: raise HTTPException(status_code=<status>, detail=str(e))
SingleCall(route, arg, o1) ==
    LET c1 == Call(route.method, <<PyInt(arg)>>, o1)
    IN  IF o1.exc # None
        THEN [resp |-> Except(o1.exc[1], route.status, <<>>), calls |-> <<c1>>]
        ELSE [resp |-> Json([result |-> o1.value[1]]), calls |-> <<c1>>]

\* handlers that normalize a username and call one client method with it
\* (lines 94-102 and 119-131)
UsernameRoutes ==
    { [name |-> "user_info_by_username",            method |-> "user_info_by_username", status |-> 404],
      [name |-> "user_followers_count_by_username", method |-> "user_info_by_username", status |-> 404] }

UsernameCall(route, username, o1) ==
    LET name == strip_username(username)
        c1 == Call(route.method, <<PyStr(name)>>, o1)
    IN  IF o1.exc # None
        THEN [resp |-> Except(o1.exc[1], route.status, <<>>), calls |-> <<c1>>]
        ELSE [resp |-> Json([result |-> o1.value[1]]), calls |-> <<c1>>]

\* handlers that turn media_pk into a media id with cl.media_id and call
\* one client method with the id; both calls are in one try, status 500
MediaIdRoutes ==
    { [name |-> "media_like",          method |-> "media_like"],
      [name |-> "media_unlike",        method |-> "media_unlike"],
      [name |-> "media_archive",       method |-> "media_archive"],
      [name |-> "media_unarchive",     method |-> "media_unarchive"],
      [name |-> "media_likers",        method |-> "media_likers"],
      [name |-> "media_comments",      method |-> "media_comments"],
      [name |-> "media_comment",       method |-> "media_comment"],
      [name |-> "comment_bulk_delete", method |-> "comment_bulk_delete"] }

MediaIdCall(route, media_pk, o1, o2) ==
    LET c1 == Call("media_id", <<PyInt(media_pk)>>, o1)
    IN  IF o1.exc # None
        THEN [resp |-> Except(o1.exc[1], 500, <<>>), calls |-> <<c1>>]
        ELSE LET c2 == Call(route.method, <<o1.value[1]>>, o2)
             IN  IF o2.exc # None
                 THEN [resp |-> Except(o2.exc[1], 500, <<>>),
                       calls |-> <<c1, c2>>]
                 ELSE [resp |-> Json([result |-> o2.value[1]]),
                       calls |-> <<c1, c2>>]

\* ------------------------------------------------------------- the router
\* the router hands a request to a handler once the module body has run and
\* the previous handler has returned
Idle == pc = "serving" /\ req = None /\ resp = None

\* a handler has run: its response and its client calls are recorded; no
\* handler assigns cl or sessionid, and none calls login_by_sessionid
Handled(request, result) ==
    /\ req' = Some(request)
    /\ resp' = Some(result.resp)
    /\ calls' = result.calls
    /\ observed' = observed \cup {cl[1].id}
    /\ UNCHANGED <<pc, env, cl, sessionid, loginCalls>>

\* the router refused the request: no handler ran
Rejected(request) ==
    /\ req' = Some(request)
    /\ resp' = Some(Unprocessable)
    /\ calls' = <<>>
    /\ UNCHANGED <<pc, env, cl, sessionid, loginCalls, observed>>

\* the values a request can carry
Amounts == (0 - 1)..(AmountLe + 1)
Queries == {<<>>, <<"a">>}
IdLists == {<<>>, <<PyInt(1)>>}

\* the outcomes of a handler's second client call: the call is made only
\* when the first one returned, so after a raise there is nothing to choose
Second(o1, outcomes) == IF o1.exc # None THEN {o1} ELSE outcomes

\* Query(0, ge=0) of lines 136 and 145
AmountGe0(amount) == amount >= 0

\* Query(..., min_length=1) and Query(50, ge=1, le=1000) of lines 156-157
\* and 171-172
SearchParamsOk(q, amount) == Len(q) >= 1 /\ amount >= 1 /\ amount <= AmountLe

GetUserIdFromUsername ==
    /\ Idle
    /\ \E username \in PathStrings, o1 \in Outcomes({PyInt(pk) : pk \in UserPks}) :
         Handled([route |-> "user_id_from_username", username |-> username],
                 user_id_from_username(username, o1))

GetUsernameFromUserId ==
    /\ Idle
    /\ \E user_id \in UserPks :
         \E o1 \in Outcomes({PyStr(UserShort(user_id).username)}) :
           Handled([route |-> "username_from_user_id", user_id |-> user_id],
                   username_from_user_id(user_id, o1))

GetUserInfo ==
    /\ Idle
    /\ \E user_id \in UserPks :
         \E o1 \in Outcomes({User(user_id)}) :
           Handled([route |-> "user_info", user_id |-> user_id],
                   user_info(user_id, o1))

GetUserFollowers ==
    /\ Idle
    /\ \E user_id \in UserPks, amount \in Amounts :
         LET request == [route |-> "user_followers", user_id |-> user_id,
                         amount |-> amount]
         IN  IF AmountGe0(amount)
             THEN \E o1 \in Outcomes(UserLists) :
                    Handled(request, user_followers(user_id, amount, o1))
             ELSE Rejected(request)

GetUserFollowing ==
    /\ Idle
    /\ \E user_id \in UserPks, amount \in Amounts :
         LET request == [route |-> "user_following", user_id |-> user_id,
                         amount |-> amount]
         IN  IF AmountGe0(amount)
             THEN \E o1 \in Outcomes(UserLists) :
                    Handled(request, user_following(user_id, amount, o1))
             ELSE Rejected(request)

GetSearchFollowing ==
    /\ Idle
    /\ \E username \in PathStrings, q \in Queries, amount \in Amounts :
         LET request == [route |-> "search_following", username |-> username,
                         q |-> q, amount |-> amount]
         IN  IF SearchParamsOk(q, amount)
             THEN \E o1 \in Outcomes({PyInt(pk) : pk \in UserPks}) :
                  \E o2 \in Second(o1, Outcomes(UserLists)) :
                    Handled(request, search_following(username, q, amount, o1, o2))
             ELSE Rejected(request)

GetSearchFollowers ==
    /\ Idle
    /\ \E username \in PathStrings, q \in Queries, amount \in Amounts :
         LET request == [route |-> "search_followers", username |-> username,
                         q |-> q, amount |-> amount]
         IN  IF SearchParamsOk(q, amount)
             THEN \E o1 \in Outcomes({PyInt(pk) : pk \in UserPks}) :
                  \E o2 \in Second(o1, Outcomes(UserLists)) :
                    Handled(request, search_followers(username, q, amount, o1, o2))
             ELSE Rejected(request)

GetMediaInfo ==
    /\ Idle
    /\ \E media_pk \in MediaPks :
         \E o1 \in Outcomes(Medias(media_pk)) :
           Handled([route |-> "media_info", media_pk |-> media_pk],
                   media_info(media_pk, o1))

GetMediaDownload ==
    /\ Idle
    /\ \E media_pk \in MediaPks :
         \E o1 \in Outcomes(Medias(media_pk)) :
           \E o2 \in Second(o1, Outcomes({PyObj("Path")})) :
           Handled([route |-> "media_download", media_pk |-> media_pk],
                   media_download(media_pk, o1, o2))

PostDirectSend ==
    /\ Idle
    /\ \E user_ids \in IdLists, thread_ids \in IdLists,
          o1 \in Outcomes({PyObj("DirectMessage")}) :
         LET message == [text |-> <<"a">>, user_ids |-> user_ids,
                         thread_ids |-> thread_ids]
         IN  Handled([route |-> "direct_send", message |-> message],
                     direct_send(message, o1))

GetHealth ==
    /\ Idle
    /\ Handled([route |-> "health"], health(cl[1]))

\* root does not touch cl
GetRoot ==
    /\ Idle
    /\ req' = Some([route |-> "root"])
    /\ resp' = Some(root.resp)
    /\ calls' = root.calls
    /\ UNCHANGED <<pc, env, cl, sessionid, loginCalls, observed>>

SingleCallRequest ==
    /\ Idle
    /\ \E route \in SingleCallRoutes, arg \in UserPks,
          o1 \in Outcomes({PyObj("result")}) :
         Handled([route |-> route.name, arg |-> arg], SingleCall(route, arg, o1))

UsernameRequest ==
    /\ Idle
    /\ \E route \in UsernameRoutes, username \in PathStrings :
         \E o1 \in Outcomes({User(pk) : pk \in UserPks}) :
           Handled([route |-> route.name, username |-> username],
                   UsernameCall(route, username, o1))

MediaIdRequest ==
    /\ Idle
    /\ \E route \in MediaIdRoutes, media_pk \in MediaPks,
          o1 \in Outcomes({PyStr(<<"a">>)}) :
         \E o2 \in Second(o1, Outcomes({PyObj("result")})) :
           Handled([route |-> route.name, media_pk |-> media_pk],
                   MediaIdCall(route, media_pk, o1, o2))

\* the response has been sent; nothing of the request is kept
Respond ==
    /\ pc = "serving"
    /\ resp # None
    /\ req' = None
    /\ resp' = None
    /\ calls' = <<>>
    /\ UNCHANGED <<pc, env, cl, sessionid, loginCalls, observed>>

Next ==
    \/ Construct
    \/ GetEnv
    \/ Login
    \/ GetUserIdFromUsername
    \/ GetUsernameFromUserId
    \/ GetUserInfo
    \/ GetUserFollowers
    \/ GetUserFollowing
    \/ GetSearchFollowing
    \/ GetSearchFollowers
    \/ GetMediaInfo
    \/ GetMediaDownload
    \/ PostDirectSend
    \/ GetHealth
    \/ GetRoot
    \/ SingleCallRequest
    \/ UsernameRequest
    \/ MediaIdRequest
    \/ Respond

Spec == Init /\ [][Next]_vars

\* ------------------------------------------------------------- properties
\* a handler has answered the request of the named route
Answered(route) == req # None /\ resp # None /\ req[1].route = route

\* the exception the last client call of the request raised, if any
LastRaised ==
    IF calls # <<>> THEN calls[Len(calls)].outcome.exc ELSE None

\* the client methods the request called
Methods == {calls[i].method : i \in 1..Len(calls)}

\* C1: POST /direct/send without any target answers 400 and calls no client
\* method.  The handler has no such check: it always calls cl.direct_send
\* and answers 200 or 500.
C1_NoTargetIs400 ==
    (Answered("direct_send")
        /\ req[1].message.user_ids = <<>> /\ req[1].message.thread_ids = <<>>)
    => (resp[1].status = 400 /\ calls = <<>>)

\* the (media_type, product_type) pairs C2 names as supported
C2_Supported(media) ==
    \/ media.media_type = 1
    \/ media.media_type = 2 /\ media.product_type \in {"feed", "igtv", "clips"}

\* C2: GET /media/download/{media_pk}: when media_info succeeds and the kind
\* is not supported, the status is 400 and no download method is called.
\* The code's HTTPException(400) is caught by its own except clause and
\* becomes 500.
C2_UnsupportedIs400 ==
    (Answered("media_download")
        /\ calls[1].outcome.exc = None
        /\ ~C2_Supported(calls[1].outcome.value[1]))
    => (resp[1].status = 400
        /\ Methods \cap {"photo_download", "video_download", "igtv_download",
                         "clip_download"} = {})

\* C3: on the followers/following search endpoints a username that does not
\* resolve (user_id_from_username raises) answers 404, never 500.
C3_UnknownUsernameIs404 ==
    ((Answered("search_followers") \/ Answered("search_following"))
        /\ Len(calls) = 1 /\ calls[1].outcome.exc # None)
    => (resp[1].status = 404 /\ resp[1].status # 500)

\* C4: GET /user/{id}/followers answers 403 "Account is private" when the
\* client reports a private account.
C4_PrivateIs403 ==
    (Answered("user_followers")
        /\ LastRaised # None /\ LastRaised[1].kind = "PrivateAccount")
    => (resp[1].status = 403 /\ resp[1].detail = Some(<<"Account is private">>))

\* C5: login_by_sessionid is called at most once per process, exactly once
\* when the credential is present (the code's test: IG_SESSIONID is set and
\* not empty) and never otherwise, and every handler that runs uses the one
\* client object built by the module body.
C5_OneLoginOneClient ==
    /\ loginCalls <= 1
    /\ pc \in {"serving", "failed"}
         => loginCalls = (IF Truthy(env) THEN 1 ELSE 0)
    /\ pc = "failed" => req = None /\ observed = {}
    /\ observed \subseteq {NewClient.id}
    /\ observed # {} => (cl # None /\ observed = {cl[1].id})

\* a handler has called the client after the one login
C5_Witness ==
    /\ pc = "serving" /\ Truthy(env) /\ loginCalls = 1
    /\ resp # None /\ calls # <<>> /\ observed = {cl[1].id}

\* C6: with IG_SESSIONID absent every route that uses the client answers a
\* configuration error (500 or 503) without calling the client, and
\* GET /health answers 200.  The handlers never look at the credential: they
\* call the logged-out client.
C6_AbsentCredentialRefused ==
    (env = None /\ req # None /\ resp # None /\ resp[1].status # 422)
    => /\ req[1].route = "health" => resp[1].status = 200
       /\ req[1].route \notin {"health", "root"}
            => (resp[1].status \in {500, 503} /\ calls = <<>>)

\* the requests whose username goes through strip_username
UsernameRoutesAll ==
    {"user_id_from_username", "search_followers", "search_following"}
        \cup {r.name : r \in UsernameRoutes}

\* C7: the name given to the client lookup is the username with surrounding
\* whitespace, leading "@" and trailing "/" removed and nothing else
\* changed: a slice username[i..j] whose dropped prefix is whitespace and
\* "@", whose dropped suffix is whitespace and "/", and which has no leading
\* or trailing whitespace, does not start with "@" and does not end with "/".
C7_Normalized ==
    (req # None /\ resp # None /\ req[1].route \in UsernameRoutesAll /\ calls # <<>>)
    => LET username == req[1].username
           name == calls[1].args[1].str
       IN  /\ \E i \in 1..(Len(username) + 1), j \in 0..Len(username) :
                /\ name = SubSeq(username, i, j)
                /\ \A k \in 1..(i - 1) : username[k] \in Whitespace \cup {"@"}
                /\ \A k \in (j + 1)..Len(username) :
                     username[k] \in Whitespace \cup {"/"}
           /\ name # <<>> =>
                /\ name[1] \notin Whitespace \cup {"@"}
                /\ name[Len(name)] \notin Whitespace \cup {"/"}

\* C8: on the enumeration endpoints amount=N>0 answers at most N items, a
\* prefix of the client's result in its order; amount=0 answers the whole
\* result, which is no longer than the configured upper bound (the only
\* limit on an amount the source configures is AmountLe).
C8_AmountBounds ==
    (req # None /\ resp # None /\ resp[1].status = 200
        /\ req[1].route \in {"user_followers", "user_following",
                             "search_followers", "search_following"})
    => LET result == calls[Len(calls)].outcome.value[1].list
           body == resp[1].body[1].list
           amount == req[1].amount
       IN  /\ amount > 0 =>
                /\ Len(body) <= amount
                /\ body = ConvertAll(Slice(result, amount))
           /\ amount = 0 =>
                /\ body = ConvertAll(result)
                /\ Len(body) <= AmountLe

\* the failures C9 calls "other": not a not-found, private-account,
\* configuration, unsupported-capability or invalid-input condition
C9_OtherKinds == {"PleaseWaitFewMinutes"}

\* C9: on every endpoint such a failure of the client answers 500 with the
\* exception's message verbatim as detail; the lookup endpoints answer 404
\* with it.
C9_OtherFailureIs500 ==
    (req # None /\ resp # None
        /\ LastRaised # None /\ LastRaised[1].kind \in C9_OtherKinds)
    => (resp[1].status = 500 /\ resp[1].detail = Some(<<LastRaised[1].message>>))

\* C10: once serving, the process keeps serving with the same client: no
\* step assigns cl or sessionid or logs in again, and whenever a client call
\* of a handler raises, the handler answers that request with an HTTP error
\* whose detail ends with the exception's text.
C10_HandlersKeepSession ==
    [][ pc = "serving" =>
          /\ pc' = "serving"
          /\ cl' = cl
          /\ sessionid' = sessionid
          /\ loginCalls' = loginCalls
          /\ (resp' # None /\ calls' # <<>>
                /\ calls'[Len(calls')].outcome.exc # None)
             => LET e == calls'[Len(calls')].outcome.exc[1]
                    detail == resp'[1].detail[1]
                IN  /\ resp'[1].status \in {404, 500}
                    /\ detail # <<>>
                    /\ detail[Len(detail)] = e.message ]_vars

\* a handler whose client call raised has answered with its HTTP error, and
\* the client is the one the module body built and logged in
C10_Witness ==
    /\ pc = "serving" /\ loginCalls = 1
    /\ cl = Some([NewClient EXCEPT !.user_id = Some("account")])
    /\ resp # None /\ LastRaised # None
    /\ resp[1].status = 500 /\ resp[1].detail = Some(<<LastRaised[1].message>>)

\* the retrieval methods of the client
C11_Downloads ==
    {"photo_download", "video_download", "igtv_download", "clip_download"}

\* the retrieval method C11 names for a media kind and sub-kind
C11_Expected(media) ==
    CASE media.media_type = 1 -> "photo_download"
      [] media.media_type = 2 /\ media.product_type = "feed" -> "video_download"
      [] media.media_type = 2 /\ media.product_type = "igtv" -> "igtv_download"
      [] media.media_type = 2 /\ media.product_type = "clips" -> "clip_download"

C12_ResolveThenSearch ==
    (Answered("search_followers") \/ Answered("search_following"))
        /\ resp[1].status # 422
    => /\ calls # <<>>
       /\ calls[1].method = "user_id_from_username"
       /\ \A i \in 2..Len(calls) : calls[i].method = req[1].route
       /\ calls[1].outcome.exc = None
            => /\ Len(calls) = 2
               /\ calls[2].args[1] = calls[1].outcome.value[1]
       /\ calls[1].outcome.exc # None
            => /\ Len(calls) = 1
               /\ resp[1].status = 404
====
